---- MODULE Spec2Model ----
(***************************************************************************)
(* Model of the two converters of copilot_translations_converter:          *)
(*   json_to_excel.py  (build_frames and its helpers: the exporter)        *)
(*   excel_to_json.py  (read_excel_to_json and main: the importer)         *)
(*                                                                         *)
(* Encoding.  A Python str is a sequence of one-character strings.  A JSON *)
(* value or a table cell is a tagged tuple:                                *)
(*   <<"null">>            None                                            *)
(*   <<"nan">>             the float NaN (the missing marker of a float    *)
(*                         column)                                         *)
(*   <<"bool", b>>         True / False                                    *)
(*   <<"int", n>>          an integer (int, numpy.integer)                 *)
(*   <<"float", w, t>>     the float w + t/10 (float, numpy.floating)      *)
(*   <<"str", s>>          a string                                        *)
(*   <<"list", xs>>        a list of values                                *)
(*   <<"dict", items>>     a mapping: the sequence of its <<key, value>>   *)
(*                         items in insertion order, keys distinct         *)
(*   <<"ndarray", xs>>     a numpy array of cell values                    *)
(* A table (DataFrame) is [columns |-> names, rows |-> rows], each row the *)
(* sequence of its cells in column order.                                  *)
(***************************************************************************)
EXTENDS Integers, Sequences, FiniteSets, TLC

VARIABLES
    prog,        \* "export" (json_to_excel.py) or "import" (excel_to_json.py)
    pc,          \* position in the running program
    obj,         \* build_frames: the JSON value
    root_name,   \* build_frames: root_name
    sep,         \* build_frames: sep
    vertical,    \* build_frames: vertical
    flattened,   \* build_frames: flattened (line 87), <<"unset">> before
    used_names,  \* build_frames: used_names
    frames,      \* build_frames: frames, sequence of <<sheet name, table>>
    scalars,     \* build_frames: scalars, sequence of <<key, value>>
    idx,         \* build_frames: number of obj.items() already visited
    calls,       \* history: the uniq_sheet_name calls, <<base, name, "key" or "root">>
    df,          \* read_excel_to_json: the table read
    readable,    \* whether pd.read_excel succeeds
    result,      \* read_excel_to_json: result, sequence of <<key, value>>
    rowi,        \* read_excel_to_json: number of rows already visited
    outFile,     \* the output JSON file: <<"absent">> or <<"written", data>>
    exitCode     \* -1 while running, else the process exit status

vars == <<prog, pc, obj, root_name, sep, vertical, flattened, used_names,
          frames, scalars, idx, calls, df, readable, result, rowi, outFile,
          exitCode>>

(***************************************************************************)
(* Strings                                                                 *)
(***************************************************************************)
Str(s) == <<"str", s>>

Rep(c, n) == [i \in 1..n |-> c]

Take(s, n) == SubSeq(s, 1, IF n < Len(s) THEN n ELSE Len(s))

DigitChars == <<"0", "1", "2", "3", "4", "5", "6", "7", "8", "9">>

RECURSIVE Digits(_)
Digits(n) == IF n < 10 THEN <<DigitChars[n + 1]>>
             ELSE Digits(n \div 10) \o <<DigitChars[(n % 10) + 1]>>

(***************************************************************************)
(* JSON values                                                             *)
(***************************************************************************)
JNull == <<"null">>
JInt(n) == <<"int", n>>
JFloat(w, t) == <<"float", w, t>>
JBool(b) == <<"bool", b>>
JList(xs) == <<"list", xs>>
JDict(items) == <<"dict", items>>
NaN == <<"nan">>

IsDict(v) == v[1] = "dict"
IsList(v) == v[1] = "list"

\* is_list_of_dicts
is_list_of_dicts(val) == IsList(val) /\ \A i \in 1..Len(val[2]) : IsDict(val[2][i])

(***************************************************************************)
(* Python dict built from items: a repeated key keeps its first position   *)
(* and takes the later value.                                              *)
(***************************************************************************)
HasKey(items, k) == \E i \in 1..Len(items) : items[i][1] = k

\* mutant of DictSet: a key already present keeps its first value
DictSet_KeepFirst(items, k, v) ==
    IF HasKey(items, k) THEN items ELSE Append(items, <<k, v>>)

DictSet(items, k, v) ==
    IF HasKey(items, k)
    THEN [i \in 1..Len(items) |-> IF items[i][1] = k THEN <<k, v>> ELSE items[i]]
    ELSE Append(items, <<k, v>>)

RECURSIVE DictFromItems(_)
DictFromItems(items) ==
    IF items = <<>> THEN <<>>
    ELSE LET n == Len(items)
         IN  DictSet(DictFromItems(SubSeq(items, 1, n - 1)), items[n][1], items[n][2])

(***************************************************************************)
(* Sheet planner                                                           *)
(***************************************************************************)
SheetCap == 31

Invalid == {"[", "]", ":", "*", "?", "/", "\\"}

Sheet == <<"S", "h", "e", "e", "t">>

make_sheet_name(name) ==
    LET safe == [i \in 1..Len(name) |-> IF name[i] \in Invalid THEN "_" ELSE name[i]]
    IN  Take(IF safe = <<>> THEN Sheet ELSE safe, SheetCap)

Suffix(i) == <<"_">> \o Digits(i)

\* mutant of Candidate: the suffix appended without cutting the base
Candidate_NoCut(name, i) == name \o Suffix(i)

\* name[: 31 - len(suffix)] + suffix; a negative bound slices from the end
Candidate(name, i) ==
    LET cut == SheetCap - Len(Suffix(i))
    IN  (IF cut >= 0 THEN Take(name, cut)
         ELSE Take(name, IF Len(name) + cut > 0 THEN Len(name) + cut ELSE 0))
        \o Suffix(i)

RECURSIVE UniqLoop(_, _, _)
UniqLoop(name, used, i) ==
    IF Candidate(name, i) \notin used THEN Candidate(name, i)
    ELSE UniqLoop(name, used, i + 1)

\* mutant of uniq_sheet_name: the sanitized name returned without the used check
uniq_sheet_name_NoCheck(base, used) == make_sheet_name(base)

\* the name uniq_sheet_name returns; the caller adds it to used
uniq_sheet_name(base, used) ==
    LET name == make_sheet_name(base)
    IN  IF name \notin used THEN name ELSE UniqLoop(name, used, 2)

(***************************************************************************)
(* Key flattener                                                           *)
(***************************************************************************)
RECURSIVE flatten_items(_, _, _)
RECURSIVE flatten_dict(_, _, _)

\* mutant of flatten_items: the parent key left out of new_key
flatten_items_NoParent(d, parent_key, s) ==
    IF d = <<>> THEN <<>>
    ELSE LET n == Len(d)
             k == d[n][1]
             v == d[n][2]
         IN  flatten_items(SubSeq(d, 1, n - 1), parent_key, s)
             \o (IF IsDict(v) THEN flatten_dict(v[2], k, s) ELSE << <<k, v>> >>)

\* the list `items` of flatten_dict, after the loop over d.items()
flatten_items(d, parent_key, s) ==
    IF d = <<>> THEN <<>>
    ELSE LET n == Len(d)
             k == d[n][1]
             v == d[n][2]
             new_key == IF parent_key # <<>> THEN parent_key \o s \o k ELSE k
         IN  flatten_items(SubSeq(d, 1, n - 1), parent_key, s)
             \o (IF IsDict(v) THEN flatten_dict(v[2], new_key, s)
                 ELSE << <<new_key, v>> >>)

flatten_dict(d, parent_key, s) == DictFromItems(flatten_items(d, parent_key, s))

(***************************************************************************)
(* Tables: what the pandas constructors called by build_frames produce     *)
(***************************************************************************)
KeyCol == <<"K", "e", "y">>
ValueCol == <<"V", "a", "l", "u", "e">>
value_col == <<"v", "a", "l", "u", "e">>

Table(columns, rows) == [columns |-> columns, rows |-> rows]

\* pd.DataFrame(): no columns, no rows
EmptyFrame == Table(<<>>, <<>>)

ColumnTags(cells) == {cells[i][1] : i \in 1..Len(cells)}

\* The dtype pandas infers for one column.  Integers alone stay integers;
\* integers and floats mixed with each other or with a missing value become a
\* float column, where an integer n is stored as n.0 and None as NaN; any
\* other mix is an object column that keeps every value as it is.
InferColumn(cells) ==
    LET tags == ColumnTags(cells)
    IN  IF /\ tags \subseteq {"int", "float", "null", "nan"}
           /\ tags \cap {"int", "float", "nan"} # {}
           /\ tags # {"int"}
        THEN [i \in 1..Len(cells) |->
                 CASE cells[i][1] = "int"  -> JFloat(cells[i][2], 0)
                   [] cells[i][1] = "null" -> NaN
                   [] OTHER                -> cells[i]]
        ELSE cells

RECURSIVE UnionKeys(_)
\* the columns of pd.DataFrame(list of dicts): every key, in first-seen order
UnionKeys(recs) ==
    IF recs = <<>> THEN <<>>
    ELSE LET n == Len(recs)
             before == UnionKeys(SubSeq(recs, 1, n - 1))
             keys == [i \in 1..Len(recs[n]) |-> recs[n][i][1]]
         IN  before \o SelectSeq(keys, LAMBDA k : \A j \in 1..Len(before) : before[j] # k)

Lookup(items, k) == (CHOOSE i \in 1..Len(items) : items[i][1] = k)

\* pd.DataFrame(recs) for a list of dicts: a key a record lacks is NaN there
DataFrameFromRecords(recs) ==
    LET cols == UnionKeys(recs)
        raw(i, j) == IF HasKey(recs[i], cols[j])
                     THEN recs[i][Lookup(recs[i], cols[j])][2] ELSE NaN
        column(j) == InferColumn([i \in 1..Len(recs) |-> raw(i, j)])
    IN  Table(cols, [i \in 1..Len(recs) |-> [j \in 1..Len(cols) |-> column(j)[i]]])

\* pd.DataFrame({"value": lst})
DataFrameValue(lst) ==
    LET column == InferColumn(lst)
    IN  Table(<<value_col>>, [i \in 1..Len(lst) |-> <<column[i]>>])

RECURSIVE normalise_json(_, _, _)
\* pandas _normalise_json: the nested keys of a record, joined by s
normalise_json(d, key_string, s) ==
    IF d = <<>> THEN <<>>
    ELSE LET n == Len(d)
             new_key == IF key_string = <<>> THEN d[n][1] ELSE key_string \o s \o d[n][1]
             v == d[n][2]
         IN  normalise_json(SubSeq(d, 1, n - 1), key_string, s)
             \o (IF IsDict(v) THEN normalise_json(v[2], new_key, s)
                 ELSE << <<new_key, v>> >>)

\* pandas _normalise_json_ordered: the top-level non-dict entries first
normalise_record(d, s) ==
    DictFromItems(SelectSeq(d, LAMBDA e : ~IsDict(e[2]))
                  \o normalise_json(SelectSeq(d, LAMBDA e : IsDict(e[2])), <<>>, s))

\* pd.json_normalize(data, sep=s) for a dict (one record) or a list of dicts
json_normalize(data, s) ==
    IF IsDict(data) THEN DataFrameFromRecords(<<normalise_record(data[2], s)>>)
    ELSE IF data[2] = <<>> THEN EmptyFrame
    ELSE DataFrameFromRecords([i \in 1..Len(data[2]) |-> normalise_record(data[2][i][2], s)])

\* normalize_list of build_frames
normalize_list(lst, s) ==
    IF is_list_of_dicts(lst) THEN json_normalize(lst, s) ELSE DataFrameValue(lst[2])

\* pd.DataFrame([{"Key": k, "Value": v} for k, v in flattened.items()]):
\* an empty list of records makes a frame without columns
KeyValueFrame(flat) ==
    DataFrameFromRecords([i \in 1..Len(flat) |->
        << <<KeyCol, Str(flat[i][1])>>, <<ValueCol, flat[i][2]>> >>])

(***************************************************************************)
(* Bounded inputs                                                          *)
(***************************************************************************)
MaxEntries == 3     \* top-level entries of a document of the naming family
MaxFlat == 2        \* top-level entries of a document of the nesting family
MaxNameLen == 33    \* longest key of the long-name family
MaxRows == 3        \* rows of a Key/Value table of the key family
MaxCoerceRows == 1  \* rows of a Key/Value table of the cell-kind family

UpTo(S, n) == UNION {[1..k -> S] : k \in 0..n}

\* ordered mappings of at most n entries of pool, keys distinct
Mappings(pool, n) ==
    {JDict(d) : d \in {e \in UpTo(pool, n) :
                          \A i, j \in 1..Len(e) : i # j => e[i][1] # e[j][1]}}

Data == <<"d", "a", "t", "a">>
Dot == <<".">>
DotDot == <<".", ".">>

Roots == {Data, <<"a", "/">>, <<>>}

\* entries whose keys collide as sheet names, with each other or with a root
NamePool ==
    { << <<"a", "/">>, JList(<<JInt(1), JNull>>) >>,
      << <<"a", ":">>, JDict(<< << <<"c">>, JInt(1) >> >>) >>,
      << <<"a", "_", "_", "2">>,
         JList(<< JDict(<< << <<"x">>, JInt(1) >> >>),
                  JDict(<< << <<"x">>, JInt(2) >>, << <<"y">>, JInt(3) >> >>) >>) >>,
      << Data, JList(<<>>) >>,
      << <<>>, JDict(<<>>) >>,
      << <<"n">>, JInt(1) >>,
      << <<"m">>, Str(<<"t">>) >> }

\* entries that nest mappings, with keys that are empty or end in the separator
FlatPool ==
    { << <<>>, JDict(<< << <<"a">>, JInt(1) >> >>) >>,
      << <<"a">>, JInt(2) >>,
      << <<"x", ".">>, JDict(<< << <<"y">>, JInt(3) >> >>) >>,
      << <<"x">>, JDict(<< << <<".", "y">>, JInt(4) >> >>) >>,
      << <<"b">>, JDict(<< << <<"c">>, JDict(<< << <<"d">>, JFloat(5, 5) >> >>) >>,
                          << <<"e">>, JDict(<<>>) >>,
                          << <<>>, JBool(TRUE) >> >>) >>,
      << <<"e">>, JDict(<<>>) >>,
      << <<"c">>, JDict(<< << <<>>, JDict(<< << <<"x">>, JInt(1) >> >>) >>,
                          << <<"x">>, JInt(2) >> >>) >>,
      << <<"n">>, JNull >>,
      << <<>>, Str(<<"t">>) >> }

\* keys of every length 1..MaxNameLen that differ only in their first
\* character, a forbidden one: two or three of them in one document
LongKey(n, c) == <<c>> \o Rep("b", n - 1)

LongDocs ==
    {JDict(<< <<LongKey(n, "/"), JList(<<JInt(1)>>)>>,
              <<LongKey(n, ":"), JList(<<JInt(2)>>)>> >>) : n \in 1..MaxNameLen}
    \cup
    {JDict(<< <<LongKey(n, "/"), JList(<<JInt(1)>>)>>,
              <<LongKey(n, ":"), JList(<<JInt(2)>>)>>,
              <<LongKey(n, "?"), JDict(<<>>)>> >>) : n \in 1..MaxNameLen}

\* ten keys of sanitized name p = _b...b: two that occupy p_2 and p_9, then
\* eight that all become p
CrowdKeys(n) ==
    << LongKey(n, "_") \o <<"_", "2">>, LongKey(n, "_") \o <<"_", "9">>,
       LongKey(n, "_"), LongKey(n, "["), LongKey(n, "]"), LongKey(n, ":"),
       LongKey(n, "*"), LongKey(n, "?"), LongKey(n, "/"), LongKey(n, "\\") >>

CrowdDocs ==
    {JDict([i \in 1..10 |-> <<CrowdKeys(n)[i], JList(<<JInt(i)>>)>>]) : n \in {2, 29}}

RootDocs ==
    { JList(<< JDict(<< << <<"x">>, JInt(1) >> >>),
               JDict(<< << <<"x">>, JInt(2) >>, << <<"y">>, JInt(3) >> >>) >>),
      JList(<<JInt(1), JInt(2), JInt(3)>>),
      JList(<<>>),
      JInt(1), JNull, Str(<<"s">>) }

\* <<obj, root_name, sep, vertical>>
ExportInputs ==
    ((Mappings(NamePool, MaxEntries) \cup RootDocs) \X Roots \X {Dot} \X BOOLEAN)
    \cup (Mappings(FlatPool, MaxFlat) \X {Data} \X {Dot, DotDot} \X BOOLEAN)
    \cup ((LongDocs \cup CrowdDocs) \X {Data} \X {Dot} \X {FALSE})

(***************************************************************************)
(* json_to_excel.py: build_frames                                          *)
(***************************************************************************)
Unset == <<"unset">>

ExportIdle ==
    /\ obj = JNull /\ root_name = Data /\ sep = Dot /\ vertical = FALSE
    /\ flattened = Unset /\ used_names = {} /\ frames = <<>> /\ scalars = <<>>
    /\ idx = 0 /\ calls = <<>>

\* frames[uniq_sheet_name(base, used_names)] = table
AddFrame(base, table, kind) ==
    LET name == uniq_sheet_name(base, used_names)
    IN  /\ used_names' = used_names \cup {name}
        /\ frames' = DictSet(frames, name, table)
        /\ calls' = Append(calls, <<base, name, kind>>)

ExportRest == UNCHANGED <<prog, obj, root_name, sep, vertical, df, readable, result,
                          rowi, outFile, exitCode>>

\* if isinstance(obj, list): one table under the root name
BuildList ==
    /\ prog = "export" /\ pc = "bf_start" /\ IsList(obj)
    /\ AddFrame(root_name, normalize_list(obj, sep), "root")
    /\ pc' = "bf_done"
    /\ UNCHANGED <<flattened, scalars, idx>>
    /\ ExportRest

\* if isinstance(obj, dict): flattened = flatten_dict(obj, sep=sep)
Flatten ==
    /\ prog = "export" /\ pc = "bf_start" /\ IsDict(obj)
    /\ flattened' = flatten_dict(obj[2], <<>>, sep)
    /\ pc' = "bf_dict"
    /\ UNCHANGED <<used_names, frames, scalars, idx, calls>>
    /\ ExportRest

\* if vertical: the Key | Value table
BuildVertical ==
    /\ prog = "export" /\ pc = "bf_dict" /\ vertical
    /\ AddFrame(root_name, KeyValueFrame(flattened), "root")
    /\ pc' = "bf_done"
    /\ UNCHANGED <<flattened, scalars, idx>>
    /\ ExportRest

\* for k, v in obj.items(): if isinstance(v, list)
LoopList ==
    /\ prog = "export" /\ pc = "bf_dict" /\ ~vertical /\ idx < Len(obj[2])
    /\ LET k == obj[2][idx + 1][1]
           v == obj[2][idx + 1][2]
       IN  /\ IsList(v)
           /\ AddFrame(k, normalize_list(v, sep), "key")
    /\ idx' = idx + 1
    /\ UNCHANGED <<pc, flattened, scalars>>
    /\ ExportRest

\* for k, v in obj.items(): elif isinstance(v, dict)
LoopDict ==
    /\ prog = "export" /\ pc = "bf_dict" /\ ~vertical /\ idx < Len(obj[2])
    /\ LET k == obj[2][idx + 1][1]
           v == obj[2][idx + 1][2]
       IN  /\ IsDict(v)
           /\ AddFrame(k, json_normalize(v, sep), "key")
    /\ idx' = idx + 1
    /\ UNCHANGED <<pc, flattened, scalars>>
    /\ ExportRest

\* for k, v in obj.items(): else: scalars[k] = v
LoopScalar ==
    /\ prog = "export" /\ pc = "bf_dict" /\ ~vertical /\ idx < Len(obj[2])
    /\ LET k == obj[2][idx + 1][1]
           v == obj[2][idx + 1][2]
       IN  /\ ~IsList(v) /\ ~IsDict(v)
           /\ scalars' = DictSet(scalars, k, v)
    /\ idx' = idx + 1
    /\ UNCHANGED <<pc, flattened, used_names, frames, calls>>
    /\ ExportRest

\* mutant of FinishScalars: the combined table made of flattened, not of scalars
FinishScalars_Flattened ==
    /\ prog = "export" /\ pc = "bf_dict" /\ ~vertical /\ idx = Len(obj[2])
    /\ scalars # <<>>
    /\ AddFrame(root_name, json_normalize(JDict(flattened), sep), "root")
    /\ pc' = "bf_done"
    /\ UNCHANGED <<flattened, scalars, idx>>
    /\ ExportRest

\* after the loop: if scalars: the combined table
FinishScalars ==
    /\ prog = "export" /\ pc = "bf_dict" /\ ~vertical /\ idx = Len(obj[2])
    /\ scalars # <<>>
    /\ AddFrame(root_name, json_normalize(JDict(scalars), sep), "root")
    /\ pc' = "bf_done"
    /\ UNCHANGED <<flattened, scalars, idx>>
    /\ ExportRest

\* after the loop, no scalars: if not frames: an empty table
FinishEmpty ==
    /\ prog = "export" /\ pc = "bf_dict" /\ ~vertical /\ idx = Len(obj[2])
    /\ scalars = <<>>
    /\ IF frames = <<>>
       THEN AddFrame(root_name, EmptyFrame, "root")
       ELSE UNCHANGED <<used_names, frames, calls>>
    /\ pc' = "bf_done"
    /\ UNCHANGED <<flattened, scalars, idx>>
    /\ ExportRest

\* a primitive root
BuildPrimitive ==
    /\ prog = "export" /\ pc = "bf_start" /\ ~IsList(obj) /\ ~IsDict(obj)
    /\ IF vertical
       THEN AddFrame(root_name,
                     Table(<<KeyCol, ValueCol>>, << <<Str(value_col), obj>> >>),
                     "root")
       ELSE AddFrame(root_name, Table(<<value_col>>, << <<obj>> >>), "root")
    /\ pc' = "bf_done"
    /\ UNCHANGED <<flattened, scalars, idx>>
    /\ ExportRest

(***************************************************************************)
(* excel_to_json.py: read_excel_to_json and main                           *)
(***************************************************************************)
NdArray(xs) == <<"ndarray", xs>>
DateTime(n) == <<"datetime", n>>

IsArrayLike(v) == v[1] \in {"ndarray", "list"}

RECURSIVE JoinStr(_, _)
JoinStr(parts, glue) ==
    IF parts = <<>> THEN <<>>
    ELSE IF Len(parts) = 1 THEN parts[1]
    ELSE parts[1] \o glue \o JoinStr(Tail(parts), glue)

RECURSIVE PyRepr(_)
\* repr(value); str(value) differs from it only for a str
PyRepr(v) ==
    CASE v[1] = "null"     -> <<"N", "o", "n", "e">>
      [] v[1] = "nan"      -> <<"n", "a", "n">>
      [] v[1] = "bool"     -> IF v[2] THEN <<"T", "r", "u", "e">>
                              ELSE <<"F", "a", "l", "s", "e">>
      [] v[1] = "int"      -> Digits(v[2])
      [] v[1] = "float"    -> Digits(v[2]) \o <<".">> \o Digits(v[3])
      [] v[1] = "str"      -> <<"'">> \o v[2] \o <<"'">>
      [] v[1] = "datetime" -> <<"T", "i", "m", "e", "s", "t", "a", "m", "p", "(">>
                              \o Digits(v[2]) \o <<")">>
      [] v[1] = "list"     -> <<"[">> \o JoinStr([i \in 1..Len(v[2]) |-> PyRepr(v[2][i])],
                                                 <<",", " ">>) \o <<"]">>
      [] v[1] = "ndarray"  -> <<"[">> \o JoinStr([i \in 1..Len(v[2]) |-> PyRepr(v[2][i])],
                                                 <<" ">>) \o <<"]">>
      [] v[1] = "dict"     -> <<"{">> \o JoinStr([i \in 1..Len(v[2]) |->
                                  <<"'">> \o v[2][i][1] \o <<"'", ":", " ">>
                                  \o PyRepr(v[2][i][2])], <<",", " ">>) \o <<"}">>

\* str(value)
PyStr(v) == IF v[1] = "str" THEN v[2] ELSE PyRepr(v)

\* pd.isna(value) of a scalar
IsNa(v) == v[1] \in {"null", "nan"}

\* What `if pd.isna(value)` does: "true", "false", or "raise".  Of an
\* array-like value pd.isna is an array, whose truth value is that of its
\* one element, is ambiguous (ValueError) for two or more elements, and for
\* none is False with a deprecation warning or a ValueError, by numpy version.
IsNaTest(v) ==
    IF ~IsArrayLike(v) THEN {IF IsNa(v) THEN "true" ELSE "false"}
    ELSE IF Len(v[2]) = 0 THEN {"false", "raise"}
    ELSE IF Len(v[2]) = 1 THEN {IF IsNa(v[2][1]) THEN "true" ELSE "false"}
    ELSE {"raise"}

\* mutant of Convert: a float without fractional part stored as an integer
Convert_Integral(v) ==
    CASE v[1] = "float" /\ v[3] = 0 -> JInt(v[2])
      [] v[1] = "ndarray"           -> JList(v[2])
      [] OTHER                      -> v

\* the branch taken when pd.isna(value) is false
Convert(v) ==
    CASE v[1] \in {"int", "float"} -> v            \* value.item()
      [] v[1] = "ndarray"          -> JList(v[2])  \* value.tolist()
      [] OTHER                     -> v

\* except: str(value) if value is not None else None
Fallback(v) == IF v = JNull THEN JNull ELSE Str(PyStr(v))

\* the values the try/except of one row may store for a Value cell
Coerce(v) ==
    {CASE t = "true"  -> JNull
       [] t = "false" -> Convert(v)
       [] t = "raise" -> Fallback(v) : t \in IsNaTest(v)}

ColIndex(columns, c) == CHOOSE j \in 1..Len(columns) : columns[j] = c
HasCol(columns, c) == \E j \in 1..Len(columns) : columns[j] = c
Cell(t, i, c) == t.rows[i][ColIndex(t.columns, c)]

\* 'Key' in df.columns and 'Value' in df.columns
IsVertical(t) == HasCol(t.columns, KeyCol) /\ HasCol(t.columns, ValueCol)

\* json.dump raises TypeError on a value json cannot encode
RECURSIVE Serializable(_)
Serializable(v) ==
    CASE v[1] \in {"list", "ndarray"} -> \A i \in 1..Len(v[2]) : Serializable(v[2][i])
      [] v[1] = "datetime"            -> FALSE
      [] OTHER                        -> TRUE

Absent == <<"absent">>

ImportIdle ==
    /\ df = EmptyFrame /\ readable = TRUE /\ result = <<>> /\ rowi = 0
    /\ outFile = Absent /\ exitCode = -1

Extra == <<"N", "o", "t", "e">>

KeyCells == {Str(<<"a">>), JInt(1), Str(<<"1">>)}
FewValues == {JInt(3), NaN, NdArray(<<JInt(1), JInt(2)>>)}
ValueCells ==
    { NaN, JNull, JInt(3), JFloat(3, 0), JFloat(2, 5), Str(<<"s">>), JBool(TRUE),
      NdArray(<<>>), NdArray(<<JInt(7)>>), NdArray(<<NaN>>),
      NdArray(<<JInt(1), JInt(2)>>), NdArray(<<JInt(1), JInt(2), JInt(3)>>),
      DateTime(5) }

\* the tables of the given columns with at most n rows, the cells of the Key
\* and Value columns drawn from keys and values
Tables(columns, keys, values, n) ==
    LET pool(c) == IF c = KeyCol THEN keys
                   ELSE IF c = ValueCol THEN values ELSE {Str(<<"x">>)}
        rows == {r \in [1..Len(columns) -> keys \cup values \cup {Str(<<"x">>)}] :
                    \A j \in 1..Len(columns) : r[j] \in pool(columns[j])}
    IN  {Table(columns, rs) : rs \in UpTo(rows, n)}

ImportTables ==
    Tables(<<KeyCol, ValueCol>>, KeyCells, FewValues, MaxRows)
    \cup Tables(<<ValueCol, Extra, KeyCol>>, {Str(<<"a">>)}, ValueCells, MaxCoerceRows)
    \cup UNION {Tables(cols, {Str(<<"a">>)}, {JInt(3)}, MaxCoerceRows) :
                  cols \in {<<KeyCol>>, <<ValueCol>>, <<Extra>>, <<>>,
                            <<KeyCol, value_col>>, <<Extra, ValueCol>>}}

ImportRest == UNCHANGED <<prog, obj, root_name, sep, vertical, flattened, used_names,
                          frames, scalars, idx, calls>>

\* df = pd.read_excel(...)
ReadExcel ==
    /\ prog = "import" /\ pc = "imp_read"
    /\ pc' = IF readable THEN "imp_check" ELSE "imp_raised"
    /\ UNCHANGED <<df, readable, result, rowi, outFile, exitCode>>
    /\ ImportRest

\* if 'Key' in df.columns and 'Value' in df.columns: result = {} ... else: raise
CheckColumns ==
    /\ pc = "imp_check"
    /\ IF IsVertical(df)
       THEN pc' = "imp_rows" /\ result' = <<>> /\ rowi' = 0
       ELSE pc' = "imp_raised" /\ UNCHANGED <<result, rowi>>
    /\ UNCHANGED <<df, readable, outFile, exitCode>>
    /\ ImportRest

\* one iteration of for _, row in df.iterrows()
IterRow ==
    /\ pc = "imp_rows" /\ rowi < Len(df.rows)
    /\ LET key == PyStr(Cell(df, rowi + 1, KeyCol))
           value == Cell(df, rowi + 1, ValueCol)
       IN  \E c \in Coerce(value) : result' = DictSet(result, key, c)
    /\ rowi' = rowi + 1
    /\ UNCHANGED <<pc, df, readable, outFile, exitCode>>
    /\ ImportRest

\* return result
Return ==
    /\ pc = "imp_rows" /\ rowi = Len(df.rows)
    /\ pc' = "imp_returned"
    /\ UNCHANGED <<df, readable, result, rowi, outFile, exitCode>>
    /\ ImportRest

\* mutant of MainReadFailed: the output file written before the exit
MainReadFailed_Writes ==
    /\ pc = "imp_raised"
    /\ pc' = "exit" /\ exitCode' = 1 /\ outFile' = <<"written", result>>
    /\ UNCHANGED <<df, readable, result, rowi>>
    /\ ImportRest

\* main: except Exception: print, sys.exit(1)
MainReadFailed ==
    /\ pc = "imp_raised"
    /\ pc' = "exit" /\ exitCode' = 1
    /\ UNCHANGED <<df, readable, result, rowi, outFile>>
    /\ ImportRest

\* main: open the output file and json.dump(data); a value json cannot encode
\* raises after the file was opened for writing
MainWrite ==
    /\ pc = "imp_returned"
    /\ IF \A i \in 1..Len(result) : Serializable(result[i][2])
       THEN outFile' = <<"written", result>> /\ exitCode' = 0
       ELSE outFile' = <<"partial">> /\ exitCode' = 1
    /\ pc' = "exit"
    /\ UNCHANGED <<df, readable, result, rowi>>
    /\ ImportRest

\* the Key/Value reconstruction applied to the table build_frames made of a
\* mapping in the vertical layout
ReimportTable ==
    /\ prog = "export" /\ pc = "bf_done" /\ vertical /\ IsDict(obj)
    /\ df' = frames[1][2]
    /\ pc' = "imp_check"
    /\ UNCHANGED <<readable, result, rowi, outFile, exitCode>>
    /\ ImportRest

(***************************************************************************)
(* The two programs                                                        *)
(***************************************************************************)
Init ==
    \/ /\ prog = "export" /\ pc = "bf_start"
       /\ \E inp \in ExportInputs :
            /\ obj = inp[1] /\ root_name = inp[2] /\ sep = inp[3] /\ vertical = inp[4]
       /\ flattened = Unset /\ used_names = {} /\ frames = <<>> /\ scalars = <<>>
       /\ idx = 0 /\ calls = <<>>
       /\ ImportIdle
    \/ /\ prog = "import" /\ pc = "imp_read"
       /\ df \in ImportTables /\ readable \in BOOLEAN
       /\ result = <<>> /\ rowi = 0 /\ outFile = Absent /\ exitCode = -1
       /\ ExportIdle

Next ==
    \/ BuildList \/ Flatten \/ BuildVertical \/ LoopList \/ LoopDict \/ LoopScalar
    \/ FinishScalars \/ FinishEmpty \/ BuildPrimitive
    \/ ReadExcel \/ CheckColumns \/ IterRow \/ Return \/ MainReadFailed \/ MainWrite
    \/ ReimportTable

Spec == Init /\ [][Next]_vars

(***************************************************************************)
(* Properties                                                              *)
(***************************************************************************)
Forbidden == {"[", "]", ":", "*", "?", "/", "\\"}

\* C1: every sheet name build_frames has generated is non-empty, at most 31
\* characters long and free of the characters [ ] : * ? / \, the names
\* generated in one export are pairwise distinct, and so every table has an
\* entry of its own in frames, under the name generated for it.
C1_SheetNames ==
    /\ \A i \in 1..Len(calls) :
         LET n == calls[i][2]
         IN  n # <<>> /\ Len(n) <= 31 /\ \A j \in 1..Len(n) : n[j] \notin Forbidden
    /\ \A i, j \in 1..Len(calls) : i # j => calls[i][2] # calls[j][2]
    /\ Len(frames) = Len(calls)
    /\ \A i \in 1..Len(frames) : frames[i][1] = calls[i][2]
    /\ used_names = {calls[i][2] : i \in 1..Len(calls)}

\* an export that ended after at least three tables, one of them under a
\* 31-character name that carries a suffix
C1_Witness ==
    /\ pc = "bf_done" /\ Len(calls) >= 3
    /\ \E i \in 1..Len(calls) :
         Len(calls[i][2]) = 31 /\ calls[i][2] # make_sheet_name(calls[i][1])

\* the pairs of top-level keys, the first visited before the second, whose
\* sanitized and truncated sheet names are equal
Colliding ==
    {p \in (1..Len(calls)) \X (1..Len(calls)) :
        /\ p[1] < p[2]
        /\ calls[p[1]][3] = "key" /\ calls[p[2]][3] = "key"
        /\ make_sheet_name(calls[p[1]][1]) = make_sheet_name(calls[p[2]][1])}

\* the sanitized name n cut to make room for _k, then _k
Suffixed(n, k) == Take(n, 31 - Len(Suffix(k))) \o Suffix(k)

\* C10 as stated: the second table's name is the first table's name followed
\* by a numeric suffix _k, k >= 2, and both names have at most 31 characters.
C10_Original ==
    \A p \in Colliding :
        /\ \E k \in 2..(Len(calls) + 1) : calls[p[2]][2] = calls[p[1]][2] \o Suffix(k)
        /\ Len(calls[p[1]][2]) <= 31 /\ Len(calls[p[2]][2]) <= 31

\* C10 amended: the second table's name is the common sanitized name, cut to
\* 31 - len(_k) characters, followed by _k for some k >= 2; the first table's
\* name is the sanitized name itself or of that same form; the two differ and
\* both have at most 31 characters.
C10_Suffixing ==
    \A p \in Colliding :
        LET n == make_sheet_name(calls[p[1]][1])
            ks == 2..(Len(calls) + 1)
        IN  /\ \E k \in ks : calls[p[2]][2] = Suffixed(n, k)
            /\ calls[p[1]][2] = n \/ \E k \in ks : calls[p[1]][2] = Suffixed(n, k)
            /\ calls[p[1]][2] # calls[p[2]][2]
            /\ Len(calls[p[1]][2]) <= 31 /\ Len(calls[p[2]][2]) <= 31

\* two keys with one 31-character sanitized name: the first table has it, the
\* second has its first 29 characters and _2
C10_Witness ==
    \E p \in Colliding :
        /\ Len(calls[p[1]][2]) = 31
        /\ calls[p[1]][2] = make_sheet_name(calls[p[1]][1])
        /\ calls[p[2]][2] = Take(calls[p[1]][2], 29) \o <<"_", "2">>

RECURSIVE Leaves(_, _)
\* the non-mapping leaves of mapping d, depth first in insertion order, each
\* with its path: <<path, value>>
Leaves(d, path) ==
    IF d = <<>> THEN <<>>
    ELSE LET n == Len(d)
             here == Append(path, d[n][1])
         IN  Leaves(SubSeq(d, 1, n - 1), path)
             \o (IF IsDict(d[n][2]) THEN Leaves(d[n][2][2], here)
                 ELSE << <<here, d[n][2]>> >>)

IsPrefixAt(p, s, i) == i + Len(p) - 1 <= Len(s) /\ SubSeq(s, i, i + Len(p) - 1) = p

\* Python's `p in s` for strings: the empty string is in every string.
Contains(p, s) == \E i \in 1..(Len(s) + 1) : IsPrefixAt(p, s, i)

RECURSIVE SomeKeyContains(_, _)
\* some key of mapping d, at any level, contains the string s
SomeKeyContains(d, s) ==
    \E i \in 1..Len(d) :
        \/ Contains(s, d[i][1])
        \/ IsDict(d[i][2]) /\ SomeKeyContains(d[i][2][2], s)

\* flattened has one entry per leaf, in depth-first order, with the leaf's value
OneEntryPerLeaf ==
    LET leaves == Leaves(obj[2], <<>>)
    IN  /\ Len(flattened) = Len(leaves)
        /\ \A i \in 1..Len(leaves) : flattened[i][2] = leaves[i][2]

\* C5 as stated: when no key at any level contains the separator, the
\* flattened mapping has exactly one entry per non-mapping leaf, carrying that
\* leaf's value, in depth-first insertion order.
C5_Original ==
    (flattened # Unset /\ ~SomeKeyContains(obj[2], sep)) => OneEntryPerLeaf

\* C5 amended: the same, when moreover the separator is a single character
\* and no top-level entry has the empty key and a mapping as its value; each
\* flattened key is then the path joined by the separator.
C5_Lossless ==
    (/\ flattened # Unset
     /\ ~SomeKeyContains(obj[2], sep)
     /\ Len(sep) = 1
     /\ \A i \in 1..Len(obj[2]) : ~(obj[2][i][1] = <<>> /\ IsDict(obj[2][i][2])))
    => /\ OneEntryPerLeaf
       /\ \A i \in 1..Len(flattened) :
            flattened[i][1] = JoinStr(Leaves(obj[2], <<>>)[i][1], sep)

\* a flattened mapping of at least four leaves, one three levels deep and one
\* under an empty key, that meets the amended preconditions
C5_Witness ==
    /\ flattened # Unset /\ ~SomeKeyContains(obj[2], sep) /\ Len(sep) = 1
    /\ \A i \in 1..Len(obj[2]) : ~(obj[2][i][1] = <<>> /\ IsDict(obj[2][i][2]))
    /\ Len(flattened) >= 4
    /\ \E i \in 1..Len(flattened) :
         Len(Leaves(obj[2], <<>>)[i][1]) = 3 /\ Leaves(obj[2], <<>>)[i][1][2] = <<>>

IsScalar(v) == v[1] \in {"null", "bool", "int", "float", "str"}

ScalarItems(d) == SelectSeq(d, LAMBDA e : ~IsList(e[2]) /\ ~IsDict(e[2]))

\* a horizontal export of a mapping with a scalar top-level entry has ended
ScalarCase ==
    /\ prog = "export" /\ pc = "bf_done" /\ IsDict(obj) /\ ~vertical
    /\ ScalarItems(obj[2]) # <<>>

\* one row, and one column per scalar top-level key
IsScalarTable(t) ==
    /\ t.columns = [i \in 1..Len(ScalarItems(obj[2])) |-> ScalarItems(obj[2])[i][1]]
    /\ Len(t.rows) = 1

\* one table per sequence- or mapping-valued entry, and one combined table
OneCombinedTable == Len(frames) = Len(obj[2]) - Len(ScalarItems(obj[2])) + 1

\* C6 as stated, for a root name that is a valid sheet name already: the
\* combined scalar table is the one stored under the root name.
C6_Original ==
    (ScalarCase /\ make_sheet_name(root_name) = root_name)
    => /\ OneCombinedTable
       /\ HasKey(frames, root_name)
       /\ IsScalarTable(frames[Lookup(frames, root_name)][2])

\* C6 amended: the combined scalar table is the last table, stored under the
\* sanitized root name when no earlier table of the export has that name, and
\* otherwise under that name cut and suffixed _k for the least k >= 2 that
\* gives a name no earlier table has.
C6_ScalarTable ==
    ScalarCase
    => LET last == frames[Len(frames)]
           n == make_sheet_name(root_name)
           earlier == {frames[i][1] : i \in 1..(Len(frames) - 1)}
       IN  /\ OneCombinedTable
           /\ IsScalarTable(last[2])
           /\ last[1] \notin earlier
           /\ IF n \notin earlier THEN last[1] = n
              ELSE \E k \in 2..(Len(frames) + 1) :
                     /\ last[1] = Suffixed(n, k)
                     /\ \A j \in 2..(k - 1) : Suffixed(n, j) \in earlier

\* a key's table took the sanitized root name, and the combined table got _2
C6_Witness ==
    /\ ScalarCase
    /\ \E i \in 1..(Len(frames) - 1) : frames[i][1] = make_sheet_name(root_name)
    /\ frames[Len(frames)][1] = Suffixed(make_sheet_name(root_name), 2)
    /\ IsScalarTable(frames[Len(frames)][2])

\* C7 as stated: a vertical export of a mapping ends with exactly one table,
\* whose columns are Key and Value and whose rows are the flattened pairs in
\* order, row i under the key of pair i.
C7_VerticalTable ==
    (prog = "export" /\ pc = "bf_done" /\ vertical /\ IsDict(obj))
    => /\ Len(frames) = 1
       /\ frames[1][2].columns = <<KeyCol, ValueCol>>
       /\ Len(frames[1][2].rows) = Len(flattened)
       /\ \A i \in 1..Len(flattened) : frames[1][2].rows[i][1] = Str(flattened[i][1])

\* a flat mapping with scalar or null values
IsFlatScalar(v) == IsDict(v) /\ \A i \in 1..Len(v[2]) : IsScalar(v[2][i][2])

\* C2 as stated: the reconstruction of the table exported from a flat mapping
\* of scalars does not fail, and returns the mapping: same keys, same values,
\* same order.
C2_RoundTrip ==
    (prog = "export" /\ IsFlatScalar(obj) /\ pc \in {"imp_raised", "imp_returned"})
    => (pc = "imp_returned" /\ result = obj[2])

\* at least one row has been reconstructed
Processed == pc \in {"imp_rows", "imp_returned"} /\ rowi >= 1

\* the key and the Value cell of the row reconstructed last, and what result
\* holds under that key
LastKey == PyStr(Cell(df, rowi, KeyCol))
LastValue == Cell(df, rowi, ValueCol)
Stored == result[Lookup(result, LastKey)][2]

\* C3 as stated: an array-like Value cell is stored as the sequence of the
\* values it contains, whatever its length.
C3_ArrayCell ==
    (Processed /\ LastValue[1] = "ndarray") => Stored = <<"list", LastValue[2]>>

\* C4 as stated: a numeric Value cell of either kind is stored as an integer
\* when it has no fractional part and as a float when it has one.
C4_Original ==
    (Processed /\ LastValue[1] \in {"int", "float"})
    => Stored = (IF LastValue[1] = "int" THEN <<"int", LastValue[2]>>
                 ELSE IF LastValue[3] = 0 THEN <<"int", LastValue[2]>>
                 ELSE <<"float", LastValue[2], LastValue[3]>>)

\* C4 amended: a numeric Value cell is stored with its value and its own
\* kind: an integer-typed cell as an integer, a floating-typed cell as a
\* float, also when it has no fractional part.
C4_NumericKind ==
    (Processed /\ LastValue[1] \in {"int", "float"})
    => Stored = (IF LastValue[1] = "int" THEN <<"int", LastValue[2]>>
                 ELSE <<"float", LastValue[2], LastValue[3]>>)

\* the floating-typed cell 3.0 was reconstructed, as the float 3.0
C4_Witness ==
    Processed /\ LastValue = <<"float", 3, 0>> /\ Stored = <<"float", 3, 0>>

\* the table lacks a Key column or lacks a Value column
LacksColumn ==
    \/ \A j \in 1..Len(df.columns) : df.columns[j] # <<"K", "e", "y">>
    \/ \A j \in 1..Len(df.columns) : df.columns[j] # <<"V", "a", "l", "u", "e">>

\* C8: once a table that lacks a Key or a Value column has been read,
\* read_excel_to_json has raised without reconstructing a row, and main exits
\* with status 1 and leaves the output file unopened.
C8_MissingColumns ==
    (readable /\ LacksColumn /\ pc \notin {"bf_start", "bf_dict", "bf_done", "imp_read", "imp_check"})
    => /\ pc \in {"imp_raised", "exit"}
       /\ result = <<>> /\ rowi = 0
       /\ outFile = <<"absent">>
       /\ pc = "exit" => exitCode = 1

\* the import of a table with rows and a Key column but no Value column has
\* exited
C8_Witness ==
    /\ prog = "import" /\ pc = "exit" /\ readable
    /\ HasCol(df.columns, KeyCol) /\ ~HasCol(df.columns, ValueCol)
    /\ Len(df.rows) >= 1
    /\ exitCode = 1 /\ outFile = Absent

\* the stringified keys of the first n rows
RowKeys(n) == [i \in 1..n |-> PyStr(Cell(df, i, KeyCol))]

RECURSIVE FirstSeen(_)
\* the distinct elements of ks in the order of their first occurrence
FirstSeen(ks) ==
    IF ks = <<>> THEN <<>>
    ELSE LET n == Len(ks)
             before == FirstSeen(SubSeq(ks, 1, n - 1))
         IN  IF \E j \in 1..Len(before) : before[j] = ks[n] THEN before
             ELSE Append(before, ks[n])

\* the last of the first n rows whose stringified key is k
LastRowOf(k, n) ==
    CHOOSE i \in 1..n : RowKeys(n)[i] = k /\ \A j \in (i + 1)..n : RowKeys(n)[j] # k

\* C9: the mapping reconstructed from the rows visited so far has one entry
\* per distinct stringified Key, in the order of the keys' first rows, each
\* with the coerced Value of the last row that carries the key.
C9_LastRowWins ==
    (pc \in {"imp_rows", "imp_returned"} /\ IsVertical(df))
    => /\ [i \in 1..Len(result) |-> result[i][1]] = FirstSeen(RowKeys(rowi))
       /\ \A i \in 1..Len(result) :
            result[i][2] \in Coerce(Cell(df, LastRowOf(result[i][1], rowi), ValueCol))

\* three rows were reconstructed, the first and the third under one
\* stringified key (from cells of different kinds) with different values: two
\* entries, the first with the third row's value
C9_Witness ==
    /\ prog = "import" /\ pc = "imp_returned" /\ Len(df.rows) = 3 /\ Len(result) = 2
    /\ RowKeys(3)[1] = RowKeys(3)[3] /\ RowKeys(3)[1] # RowKeys(3)[2]
    /\ Cell(df, 1, KeyCol) # Cell(df, 3, KeyCol)
    /\ result[1][1] = RowKeys(3)[1]
    /\ result[1][2] \in Coerce(Cell(df, 3, ValueCol))
    /\ result[1][2] \notin Coerce(Cell(df, 1, ValueCol))

====
